---- MODULE Spec2Model ----
(***************************************************************************)
(* Neocache: an in-process cache with a two-generation approximate LRU     *)
(* (cache / oldCache) and a bucketed TTL purge (timeToKeyBucket + timer).  *)
(* The engine modelled is the class Neocache with the getOnly method.      *)
(***************************************************************************)
EXTENDS Integers, Sequences, FiniteSets, TLC

\* ------------------------------------------------------------------ bounds
MaxTime == 2            \* Date.now() ranges over 0..MaxTime
MaxTtl == 1             \* largest per-call expireTimeMs
DefaultTtl == 2         \* the non-zero defaultExpireTimeMs that is explored
PurgeInterval == 2      \* the non-zero purgeIntervalMs that is explored
MaxMaxSize == 2         \* maxSize ranges over undefined, 1..MaxMaxSize
MaxSets == 2            \* writes in one behaviour of Spec
MaxPending == 2         \* producers suspended at the same time in SpecFetch
MaxFetchSets == 2       \* writes in one behaviour of SpecFetch
MaxLruSets == 3         \* writes in one behaviour of SpecLru
MaxTwinSets == 4        \* writes in one behaviour of SpecTwin
MaxSatSets == 5         \* writes in one behaviour of SpecSat
MaxColdSets == 5        \* writes in one behaviour of SpecCold
MaxCount == 2           \* count of getRandomItems ranges over 0..MaxCount
MaxEngines == 3         \* engines constructed in one behaviour of SpecRegistry
MaxRegistrySets == 2    \* writes in one behaviour of SpecRegistry
MaxTimelySets == 2      \* writes in one behaviour of SpecTimely
MaxTimelyTime == 6      \* Date.now() ranges over 0..MaxTimelyTime in SpecTimely
MaxControlSets == 4     \* writes in one behaviour of SpecControl

KeyOrder == <<"a", "b", "c">>
Keys == {KeyOrder[i] : i \in 1..Len(KeyOrder)}
\* payloads: 0 stands for the falsy payloads (0, false, '', null), 1 is truthy
Data == {0, 1}

\* null / undefined
NULL == -1
POSITIVE_INFINITY == 1000

Truthy(x) == x # NULL /\ x # 0

\* ------------------------------------------------- Map<string, CacheItem>
\* A Map is the sequence of its entries in insertion order.
CacheItem(data, expireTime) == [data |-> data, expireTime |-> expireTime]

MapHas(m, k) == \E i \in 1..Len(m) : m[i].key = k

MapKeys(m) == {m[i].key : i \in 1..Len(m)}

MapGet(m, k) == (CHOOSE e \in {m[i] : i \in 1..Len(m)} : e.key = k).item

\* Map.prototype.set: an existing key keeps its position
MapSet(m, k, item) ==
    IF MapHas(m, k)
    THEN [i \in 1..Len(m) |-> IF m[i].key = k THEN [key |-> k, item |-> item] ELSE m[i]]
    ELSE Append(m, [key |-> k, item |-> item])

MapDelete(m, k) == SelectSeq(m, LAMBDA e : e.key # k)

\* ---------------------------------------------------------------- state
VARIABLES
    given,              \* the options passed to the constructor (NULL: absent)
    options,            \* CacheOptions after the constructor's merge
    cache,              \* current generation
    oldCache,           \* previous generation
    timeToKeyBucket,    \* bucket id -> list of keys
    purgeExpiredTimer,  \* NULL, or the time at which the interval fires next
    now,                \* Date.now()
    pending,            \* get calls suspended in `await fetchFunc()`
    latest,             \* history: per key, what its latest set wrote
    recency,            \* history: keys by last set or returning get, most recent last
    ins,                \* history: per key, sets of other keys since its last set or returning get
    adds,               \* history: per key, other keys put into cache since getOnly last found it
    quota,              \* exploration: number of writes still allowed
    track,              \* exploration: 0 records no history; otherwise ins and adds count up to track * maxSize
    nkeys,              \* history: number of keys of KeyOrder used so far
    twin,               \* a second engine given the same calls (see Constructed)
    disposed,           \* history: dispose() has been called
    intervals,          \* runtime: setInterval timers of the engine not yet cleared
    registry,           \* the CacheRegistry: caches (name -> engine reference), defaultOptions
    heap,               \* the engines the registry constructed, by reference
    outcome             \* history: what the latest call on the registry did

engineVars == <<cache, oldCache, timeToKeyBucket, purgeExpiredTimer>>
vars == <<options, cache, oldCache, timeToKeyBucket, purgeExpiredTimer,
          now, pending, latest, recency, ins, adds, quota, track, nkeys, twin,
          given, disposed, intervals, registry, heap, outcome>>
registryVars == <<registry, heap, outcome>>

This == [options |-> options, cache |-> cache, oldCache |-> oldCache,
         timeToKeyBucket |-> timeToKeyBucket,
         purgeExpiredTimer |-> purgeExpiredTimer]

Install(self) ==
    /\ cache' = self.cache
    /\ oldCache' = self.oldCache
    /\ timeToKeyBucket' = self.timeToKeyBucket
    /\ purgeExpiredTimer' = self.purgeExpiredTimer
    /\ options' = self.options
    /\ given' = given

\* the second engine is driven only when the specification compares it
Twinned == twin.driven # 0

Mirror(self) == twin' = IF Twinned THEN self ELSE twin

\* ------------------------------------------------------------ the engine
\* `this.cache.size >= this.options.maxSize ?? Number.POSITIVE_INFINITY`
\* parses as `(size >= maxSize) ?? Infinity`; size >= undefined is false.
\* the threshold test rotating one insertion early
ReachedMaxSize_Early(n, maxSize) == IF maxSize = NULL THEN FALSE ELSE n + 1 >= maxSize

ReachedMaxSize_Strict(n, maxSize) == IF maxSize = NULL THEN FALSE ELSE n > maxSize

ReachedMaxSize(n, maxSize) == IF maxSize = NULL THEN FALSE ELSE n >= maxSize

Rotate(self) ==
    IF ReachedMaxSize(Len(self.cache), self.options.maxSize)
    THEN [self EXCEPT !.oldCache = self.cache, !.cache = <<>>]
    ELSE self

Expired_OffByOne(item, t) == ~(item.expireTime >= t)

Expired(item, t) == ~(item.expireTime > t)

\* getOnly promoting from oldCache without looking at expireTime
getOnly_Sliding(self, id, t) ==
    IF MapHas(self.cache, id)
    THEN LET item == MapGet(self.cache, id)
         IN [self |-> self, ret |-> IF ~Expired(item, t) THEN item.data ELSE NULL]
    ELSE IF MapHas(self.oldCache, id)
    THEN LET item == MapGet(self.oldCache, id)
         IN IF ~Expired(item, t)
            THEN [self |-> Rotate([self EXCEPT !.cache =
                                MapSet(self.cache, id, CacheItem(item.data, POSITIVE_INFINITY))]),
                  ret |-> item.data]
            ELSE [self |-> self, ret |-> NULL]
    ELSE [self |-> self, ret |-> NULL]

\* getOnly re-inserting the entry on a hit in cache (Map.delete, then Map.set)
getOnly_Reinsert(self, id, t) ==
    IF MapHas(self.cache, id) /\ ~Expired(MapGet(self.cache, id), t)
    THEN LET item == MapGet(self.cache, id)
         IN [self |-> [self EXCEPT !.cache = MapSet(MapDelete(self.cache, id), id, item)],
             ret |-> item.data]
    ELSE IF ~MapHas(self.cache, id) /\ MapHas(self.oldCache, id)
    THEN LET item == MapGet(self.oldCache, id)
         IN IF ~Expired(item, t)
            THEN [self |-> Rotate([self EXCEPT !.cache = MapSet(self.cache, id, item)]),
                  ret |-> item.data]
            ELSE [self |-> self, ret |-> NULL]
    ELSE [self |-> self, ret |-> NULL]

getOnly_PromoteExpired(self, id, t) ==
    IF MapHas(self.cache, id)
    THEN LET item == MapGet(self.cache, id)
         IN [self |-> self, ret |-> IF ~Expired(item, t) THEN item.data ELSE NULL]
    ELSE IF MapHas(self.oldCache, id)
    THEN LET item == MapGet(self.oldCache, id)
         IN [self |-> Rotate([self EXCEPT !.cache = MapSet(self.cache, id, item)]),
             ret |-> item.data]
    ELSE [self |-> self, ret |-> NULL]

getOnly(self, id, t) ==
    IF MapHas(self.cache, id)
    THEN LET item == MapGet(self.cache, id)
         IN [self |-> self, ret |-> IF ~Expired(item, t) THEN item.data ELSE NULL]
    ELSE IF MapHas(self.oldCache, id)
    THEN LET item == MapGet(self.oldCache, id)
         IN IF ~Expired(item, t)
            THEN [self |-> Rotate([self EXCEPT !.cache = MapSet(self.cache, id, item)]),
                  ret |-> item.data]
            ELSE [self |-> self, ret |-> NULL]
    ELSE [self |-> self, ret |-> NULL]

\* the default taking precedence over the per-call TTL
ExpireTimeOf_NullTest(self, ttl, t) ==
    LET expireTimeMs == IF ttl # NULL THEN ttl ELSE self.options.defaultExpireTimeMs
    IN IF expireTimeMs # NULL THEN t + expireTimeMs ELSE POSITIVE_INFINITY

ExpireTimeOf_DefaultFirst(self, ttl, t) ==
    LET expireTimeMs == IF self.options.defaultExpireTimeMs # NULL
                        THEN self.options.defaultExpireTimeMs ELSE ttl
    IN IF Truthy(expireTimeMs) THEN t + expireTimeMs ELSE POSITIVE_INFINITY

\* options?.expireTimeMs ?? this.options.defaultExpireTimeMs, then the
\* truthiness test that turns 0 / undefined into "never expires"
ExpireTimeOf(self, ttl, t) ==
    LET expireTimeMs == IF ttl # NULL THEN ttl ELSE self.options.defaultExpireTimeMs
    IN IF Truthy(expireTimeMs) THEN t + expireTimeMs ELSE POSITIVE_INFINITY

\* the bucket of the interval in which the entry expires, without the + 1
TimeKey_SameInterval(expireTime, interval) == expireTime \div interval

\* the bucket after the interval in which the entry expires
TimeKey(expireTime, interval) == (expireTime \div interval) + 1

BucketGet(m, timeKey) == IF timeKey \in DOMAIN m THEN m[timeKey] ELSE <<>>

BucketPush(m, timeKey, id) ==
    [b \in DOMAIN m \cup {timeKey} |->
        IF b = timeKey THEN Append(BucketGet(m, timeKey), id) ELSE m[b]]

\* setUpPurgeExpiredTimer without the test of this.purgeExpiredTimer
setUpPurgeExpiredTimer_NoGuard(self, t) ==
    IF ~Truthy(self.options.purgeIntervalMs) THEN self
    ELSE [self EXCEPT !.purgeExpiredTimer = t + self.options.purgeIntervalMs]

setUpPurgeExpiredTimer(self, t) ==
    IF ~Truthy(self.options.purgeIntervalMs) THEN self
    ELSE IF self.purgeExpiredTimer # NULL THEN self
    ELSE [self EXCEPT !.purgeExpiredTimer = t + self.options.purgeIntervalMs]

set(self, id, data, ttl, t) ==
    LET expireTime == ExpireTimeOf(self, ttl, t)
        s1 == Rotate([self EXCEPT !.cache = MapSet(self.cache, id, CacheItem(data, expireTime))])
    IN IF ~Truthy(self.options.purgeIntervalMs) \/ expireTime = POSITIVE_INFINITY
       THEN s1
       ELSE setUpPurgeExpiredTimer(
                [s1 EXCEPT !.timeToKeyBucket =
                    BucketPush(s1.timeToKeyBucket,
                               TimeKey(expireTime, self.options.purgeIntervalMs), id)],
                t)

invalidate_CacheOnly(self, id) ==
    [self EXCEPT !.cache = MapDelete(self.cache, id)]

invalidate(self, id) ==
    [self EXCEPT !.cache = MapDelete(self.cache, id),
                 !.oldCache = MapDelete(self.oldCache, id)]

Min(x, y) == IF x <= y THEN x ELSE y

\* size without the Math.min against maxSize
size_Uncapped(self) ==
    IF Len(self.cache) = 0 THEN Len(self.oldCache)
    ELSE Len(self.oldCache) + Cardinality(MapKeys(self.cache) \ MapKeys(self.oldCache))

size(self) ==
    IF Len(self.cache) = 0 THEN Len(self.oldCache)
    ELSE LET n == Len(self.oldCache)
                  + Cardinality(MapKeys(self.cache) \ MapKeys(self.oldCache))
         IN IF self.options.maxSize = NULL THEN n ELSE Min(n, self.options.maxSize)

\* the sweep dropping every listed key that cache holds
PurgeHit_AnyEntry(self, key, t) == MapHas(self.cache, key)

\* the sweep sparing an entry for one more interval after its expireTime
PurgeHit_Margin(self, key, t) ==
    /\ MapHas(self.cache, key)
    /\ MapGet(self.cache, key).expireTime + self.options.purgeIntervalMs < t

\* `item && item.expireTime < now`, item being this.cache.get(key)
PurgeHit(self, key, t) ==
    MapHas(self.cache, key) /\ MapGet(self.cache, key).expireTime < t

RECURSIVE PurgeKeys(_, _, _)
PurgeKeys(self, keys, t) ==
    IF keys = <<>> THEN self
    ELSE LET key == Head(keys)
         IN PurgeKeys(IF PurgeHit(self, key, t) THEN invalidate(self, key) ELSE self,
                      Tail(keys), t)

purgeExpired(self, t) ==
    LET timeKey == t \div self.options.purgeIntervalMs
        s1 == PurgeKeys(self, BucketGet(self.timeToKeyBucket, timeKey), t)
    IN [s1 EXCEPT !.timeToKeyBucket =
            [b \in DOMAIN s1.timeToKeyBucket \ {timeKey} |-> s1.timeToKeyBucket[b]]]

\* dispose dropping the bucket index along with the timer
dispose_DropsBuckets(self) ==
    [self EXCEPT !.purgeExpiredTimer = NULL, !.timeToKeyBucket = <<>>]

dispose(self) == [self EXCEPT !.purgeExpiredTimer = NULL]

\* getRandomItems(count): the keys of this.cache in a random order, popped
\* until count values of unexpired entries are collected or the keys run out;
\* the set of the arrays it can return
getRandomItems(self, count, t) ==
    LET valid == {k \in MapKeys(self.cache) : MapGet(self.cache, k).expireTime > t}
        n == Min(count, Cardinality(valid))
    IN {[i \in 1..n |-> MapGet(self.cache, order[i]).data] :
            order \in {o \in [1..n -> valid] : \A i, j \in 1..n : o[i] = o[j] => i = j}}

\* get sharing the producer of a call already in flight for the same key
get_SingleFlight(self, id, hasFetch, t) ==
    LET r == getOnly(self, id, t)
    IN [self |-> r.self,
        ret |-> IF Truthy(r.ret) THEN r.ret ELSE NULL,
        fetch |-> ~Truthy(r.ret) /\ hasFetch /\ \A s \in DOMAIN pending : pending[s].id # id]

\* get up to `await fetchFunc()`: ret is what the call returns when it does
\* not reach the producer, fetch tells that the producer is invoked
get(self, id, hasFetch, t) ==
    LET r == getOnly(self, id, t)
    IN [self |-> r.self,
        ret |-> IF Truthy(r.ret) THEN r.ret ELSE NULL,
        fetch |-> ~Truthy(r.ret) /\ hasFetch]

\* ------------------------------------------------------------- behaviour
NoCall == [id |-> "-", ttl |-> NULL]
NoWrite == [live |-> FALSE, data |-> NULL, expireTime |-> 0]

\* the field initialiser of `options`: the library defaults, in the model's
\* time unit the non-zero values that are explored
Defaults ==
    [defaultExpireTimeMs |-> DefaultTtl, purgeIntervalMs |-> PurgeInterval, maxSize |-> NULL]

Merge_FalsyToDefault(opts) ==
    [f \in DOMAIN Defaults |-> IF Truthy(opts[f]) THEN opts[f] ELSE Defaults[f]]

\* new Neocache(options): {...this.options, ...options}
Merge(opts) ==
    [f \in DOMAIN Defaults |-> IF opts[f] = NULL THEN Defaults[f] ELSE opts[f]]

\* the options a caller passes; all fields absent is also `new Neocache()`
AllOptions ==
    [defaultExpireTimeMs : {NULL, 0, DefaultTtl},
     purgeIntervalMs : {NULL, 0, PurgeInterval},
     maxSize : {NULL} \cup (1..MaxMaxSize)]

Constructed(opts, writes, slots, tracked, twinned) ==
    /\ given \in opts
    /\ options = Merge(given)
    /\ cache = <<>>
    /\ oldCache = <<>>
    /\ timeToKeyBucket = <<>>
    /\ purgeExpiredTimer = NULL
    /\ now = 0
    /\ pending = [s \in 1..slots |-> NoCall]
    /\ latest = [k \in Keys |-> NoWrite]
    /\ recency = <<>>
    /\ ins = [k \in Keys |-> 0]
    /\ adds = [k \in Keys |-> 0]
    /\ quota = writes
    /\ track = tracked
    /\ nkeys = 0
    /\ disposed = FALSE
    /\ intervals = 0
    /\ twin = [options |-> IF twinned = 1 THEN [options EXCEPT !.purgeIntervalMs = 0]
                           ELSE options,
               cache |-> <<>>, oldCache |-> <<>>, timeToKeyBucket |-> <<>>,
               purgeExpiredTimer |-> NULL, driven |-> twinned]

PerCallTtl == {NULL} \cup (1..MaxTtl)

\* Keys are interchangeable: a call names a key used before or the first
\* key of KeyOrder not used yet.
\* the engine specifications have no registry
NoOptions == [defaultExpireTimeMs |-> NULL, purgeIntervalMs |-> NULL, maxSize |-> NULL]
NoOutcome == [op |-> "-", name |-> "-", threw |-> FALSE, ret |-> NULL, deleted |-> FALSE]

\* new CacheRegistry(defaultOptions)
CacheRegistry(defaultOptions) == [caches |-> <<>>, defaultOptions |-> defaultOptions]

NoRegistry ==
    /\ registry = CacheRegistry(NoOptions)
    /\ heap = <<>>
    /\ outcome = NoOutcome

Known == {KeyOrder[i] : i \in 1..Min(nkeys + 1, Len(KeyOrder))}

Touch(id) ==
    nkeys' = IF nkeys < Len(KeyOrder) /\ id = KeyOrder[nkeys + 1] THEN nkeys + 1 ELSE nkeys

\* the setInterval calls of a step that takes the engine from self to next:
\* setUpPurgeExpiredTimer stores the handle of the interval it creates
SetIntervalCalls(self, next) ==
    IF next.purgeExpiredTimer # self.purgeExpiredTimer THEN 1 ELSE 0

Written(self, id, data, ttl, t) ==
    [latest EXCEPT ![id] = [live |-> TRUE, data |-> data,
                            expireTime |-> ExpireTimeOf(self, ttl, t)]]

\* history of one call on id: returned - a set, or a get that returns the
\* value; found - a set, or a get whose getOnly finds the unexpired entry;
\* added - the call puts id into a cache that did not hold it; inserted - the
\* call is a set
Track(id, returned, found, added, inserted) ==
    LET cap == IF options.maxSize = NULL THEN 0 ELSE track * options.maxSize
    IN  /\ track' = track
        /\ recency' = IF track > 0 /\ returned THEN Append(SelectSeq(recency, LAMBDA k : k # id), id)
                      ELSE recency
        /\ adds' = [k \in Keys |->
                        IF track = 0 THEN adds[k]
                        ELSE IF found /\ k = id THEN 0
                        ELSE IF added /\ k # id THEN Min(adds[k] + 1, cap) ELSE adds[k]]
        /\ ins' = [k \in Keys |->
                        IF track = 0 THEN ins[k]
                        ELSE IF returned /\ k = id THEN 0
                        ELSE IF inserted /\ k # id THEN Min(ins[k] + 1, cap) ELSE ins[k]]

\* cache.set(id, data, options)
Set(id, data, ttl) ==
    /\ quota > 0
    /\ Install(set(This, id, data, ttl, now))
    /\ latest' = Written(This, id, data, ttl, now)
    /\ Track(id, TRUE, TRUE, ~MapHas(cache, id), TRUE)
    /\ Mirror(set(twin, id, data, ttl, now))
    /\ quota' = quota - 1
    /\ Touch(id)
    /\ intervals' = intervals + SetIntervalCalls(This, set(This, id, data, ttl, now))
    /\ UNCHANGED <<registry, heap, outcome, now, pending, disposed>>

\* cache.get(id) and cache.get(id, fetchFunc, options) up to the first await
Get(id, hasFetch, ttl) ==
    LET r == get(This, id, hasFetch, now)
    IN  /\ hasFetch \/ ttl = NULL
        /\ Install(r.self)
        /\ IF r.fetch
           THEN \E s \in DOMAIN pending :
                /\ pending[s] = NoCall
                /\ \A s2 \in 1..(s - 1) : pending[s2] # NoCall
                /\ pending' = [pending EXCEPT ![s] = [id |-> id, ttl |-> ttl]]
           ELSE UNCHANGED pending
        /\ Track(id, r.ret # NULL, getOnly(This, id, now).ret # NULL,
                 getOnly(This, id, now).ret # NULL /\ ~MapHas(cache, id), FALSE)
        /\ Mirror(get(twin, id, hasFetch, now).self)
        /\ Touch(id)
        /\ UNCHANGED <<intervals, registry, heap, outcome, now, latest, quota, disposed>>

\* fetchFunc() fulfils with data: this.set(id, data, options); return data
Resolve(s, data) ==
    /\ pending[s] # NoCall
    /\ quota > 0
    /\ Install(set(This, pending[s].id, data, pending[s].ttl, now))
    /\ latest' = Written(This, pending[s].id, data, pending[s].ttl, now)
    /\ Track(pending[s].id, TRUE, TRUE, ~MapHas(cache, pending[s].id), TRUE)
    /\ Mirror(set(twin, pending[s].id, data, pending[s].ttl, now))
    /\ quota' = quota - 1
    /\ pending' = [pending EXCEPT ![s] = NoCall]
    /\ intervals' = intervals
            + SetIntervalCalls(This, set(This, pending[s].id, data, pending[s].ttl, now))
    /\ UNCHANGED <<registry, heap, outcome, now, nkeys, disposed>>

\* fetchFunc() throws or rejects: get rejects with the same error
Reject(s) ==
    /\ pending[s] # NoCall
    /\ pending' = [pending EXCEPT ![s] = NoCall]
    /\ UNCHANGED <<intervals, registry, heap, outcome, given, options, engineVars, now, latest, recency, ins, adds, quota, track,
                   nkeys, twin, disposed>>

Invalidate(id) ==
    /\ Install(invalidate(This, id))
    /\ latest' = [latest EXCEPT ![id] = NoWrite]
    /\ Mirror(invalidate(twin, id))
    /\ Touch(id)
    /\ UNCHANGED <<intervals, registry, heap, outcome, now, pending, recency, ins, adds, quota, track, disposed>>

\* the interval callback: self.purgeExpired(); the interval stays armed
PurgeTimer ==
    /\ purgeExpiredTimer # NULL
    /\ now >= purgeExpiredTimer
    /\ Install([purgeExpired(This, now) EXCEPT
                    !.purgeExpiredTimer = now + options.purgeIntervalMs])
    /\ UNCHANGED <<intervals, registry, heap, outcome, now, pending, latest, recency, ins, adds, quota, track, nkeys, twin, disposed>>

Dispose ==
    /\ Install(dispose(This))
    /\ twin' = IF twin.driven = 1 THEN dispose(twin) ELSE twin
    /\ disposed' = TRUE
    /\ intervals' = IF purgeExpiredTimer # NULL THEN intervals - 1 ELSE intervals
    /\ UNCHANGED <<registry, heap, outcome, now, pending, latest, recency, ins, adds, quota, track, nkeys>>

\* time passes
GetRandomItems(count) ==
    /\ getRandomItems(This, count, now) # {}
    /\ UNCHANGED vars

Tick ==
    /\ now < MaxTime
    /\ now' = now + 1
    /\ UNCHANGED <<intervals, registry, heap, outcome, given, options, engineVars, pending, latest, recency, ins, adds, quota, track,
                   nkeys, twin, disposed>>

\* time passes while no callback of the interval is due
TickTimely ==
    /\ now < MaxTimelyTime
    /\ purgeExpiredTimer = NULL \/ now < purgeExpiredTimer
    /\ now' = now + 1
    /\ UNCHANGED <<intervals, registry, heap, outcome, given, options, engineVars, pending, latest, recency, ins, adds, quota, track,
                   nkeys, twin, disposed>>

\* the engine driven through set, get(id), invalidate, dispose and its timer
Init == Constructed(AllOptions, MaxSets, 0, 0, 0) /\ NoRegistry

Next ==
    \/ \E id \in Known, data \in Data, ttl \in PerCallTtl : Set(id, data, ttl)
    \/ \E id \in Known : Get(id, FALSE, NULL)
    \/ \E id \in Known : Invalidate(id)
    \/ PurgeTimer
    \/ Dispose
    \/ \E count \in 0..MaxCount : GetRandomItems(count)
    \/ Tick

Spec == Init /\ [][Next]_vars

\* the same with producers: get(id, fetchFunc, options) suspended in fetchFunc
FetchOptions ==
    [defaultExpireTimeMs : {DefaultTtl},
     purgeIntervalMs : {PurgeInterval},
     maxSize : {NULL} \cup (1..MaxMaxSize)]

InitFetch == Constructed(FetchOptions, MaxFetchSets, MaxPending, 0, 0) /\ NoRegistry

NextFetch ==
    \/ \E id \in Known, data \in Data, ttl \in PerCallTtl : Set(id, data, ttl)
    \/ \E id \in Known, hasFetch \in BOOLEAN, ttl \in PerCallTtl : Get(id, hasFetch, ttl)
    \/ \E s \in DOMAIN pending, data \in Data : Resolve(s, data)
    \/ \E s \in DOMAIN pending : Reject(s)
    \/ \E id \in Known : Invalidate(id)
    \/ Tick

SpecFetch == InitFetch /\ [][NextFetch]_vars

\* a bounded cache without a default TTL, driven for longer
LruOptions ==
    [defaultExpireTimeMs : {0},
     purgeIntervalMs : {PurgeInterval},
     maxSize : 1..MaxMaxSize]

InitLru == Constructed(LruOptions, MaxLruSets, 0, 1, 0) /\ NoRegistry

NextLru ==
    \/ \E id \in Known, data \in Data, ttl \in PerCallTtl : Set(id, data, ttl)
    \/ \E id \in Known : Get(id, FALSE, NULL)
    \/ \E id \in Known : Invalidate(id)
    \/ PurgeTimer
    \/ Tick

SpecLru == InitLru /\ [][NextLru]_vars

\* two engines given the same calls at the same times: one constructed with
\* purgeIntervalMs, its twin with purgeIntervalMs 0 and otherwise equal options
TwinOptions ==
    [defaultExpireTimeMs : {0, DefaultTtl},
     purgeIntervalMs : {PurgeInterval},
     maxSize : {NULL} \cup (1..MaxMaxSize)]

InitTwin == Constructed(TwinOptions, MaxTwinSets, 0, 0, 1) /\ NoRegistry

NextTwin ==
    \/ \E id \in Known, ttl \in PerCallTtl : Set(id, 1, ttl)
    \/ \E id \in Known : Get(id, FALSE, NULL)
    \/ \E id \in Known : Invalidate(id)
    \/ PurgeTimer
    \/ Tick

SpecTwin == InitTwin /\ [][NextTwin]_vars

\* a bounded cache whose entries never expire, driven by set and get only
SatOptions ==
    [defaultExpireTimeMs : {0},
     purgeIntervalMs : {0, PurgeInterval},
     maxSize : 1..MaxMaxSize]

InitSat == Constructed(SatOptions, MaxSatSets, 0, 0, 0) /\ NoRegistry

NextSat ==
    \/ \E id \in Known, data \in Data : Set(id, data, NULL)
    \/ \E id \in Known : Get(id, FALSE, NULL)

SpecSat == InitSat /\ [][NextSat]_vars

\* no expiry, no invalidate, a finite maxSize, history recorded
InitCold == Constructed(SatOptions, MaxColdSets, 0, 2, 0) /\ NoRegistry

NextCold ==
    \/ \E id \in Known : Set(id, 1, NULL)
    \/ \E id \in Known : Get(id, FALSE, NULL)

SpecCold == InitCold /\ [][NextCold]_vars

\* the interval firing exactly once per purgeIntervalMs, and no dispose
TimelyOptions ==
    [defaultExpireTimeMs : {DefaultTtl},
     purgeIntervalMs : {PurgeInterval},
     maxSize : {NULL} \cup (1..MaxMaxSize)]

InitTimely == Constructed(TimelyOptions, MaxTimelySets, 0, 0, 0) /\ NoRegistry

NextTimely ==
    \/ \E id \in Known, ttl \in PerCallTtl : Set(id, 1, ttl)
    \/ \E id \in Known : Get(id, FALSE, NULL)
    \/ \E id \in Known : Invalidate(id)
    \/ PurgeTimer
    \/ TickTimely

SpecTimely == InitTimely /\ [][NextTimely]_vars

\* an engine that is disposed at some point and a control engine with the
\* same options, given the same set / get / invalidate calls at the same
\* times but never disposed; the intervals of both fire on schedule
Due(self) == self.purgeExpiredTimer # NULL /\ now >= self.purgeExpiredTimer

\* the interval callback of self: self.purgeExpired(); the interval stays armed
Fired(self) ==
    [purgeExpired(self, now) EXCEPT
        !.purgeExpiredTimer = now + self.options.purgeIntervalMs]

\* the callbacks that are due at this instant run
PurgeTimers ==
    /\ Due(This) \/ Due(twin)
    /\ Install(IF Due(This) THEN Fired(This) ELSE This)
    /\ twin' = IF Due(twin) THEN Fired(twin) ELSE twin
    /\ UNCHANGED <<intervals, registry, heap, outcome, now, pending, latest, recency, ins, adds,
                   quota, track, nkeys, disposed>>

\* time passes while no callback of either engine is due
TickControl ==
    /\ now < MaxTime
    /\ ~Due(This) /\ ~Due(twin)
    /\ now' = now + 1
    /\ UNCHANGED <<intervals, registry, heap, outcome, given, options, engineVars, pending, latest,
                   recency, ins, adds, quota, track, nkeys, twin, disposed>>

ControlOptions ==
    [defaultExpireTimeMs : {DefaultTtl},
     purgeIntervalMs : {PurgeInterval},
     maxSize : {NULL, MaxMaxSize}]

InitControl == Constructed(ControlOptions, MaxControlSets, 0, 0, 2) /\ NoRegistry

NextControl ==
    \/ \E id \in Known : Set(id, 1, MaxTtl)
    \/ \E id \in Known : Get(id, FALSE, NULL)
    \/ \E id \in Known : Invalidate(id)
    \/ Dispose
    \/ PurgeTimers
    \/ TickControl

SpecControl == InitControl /\ [][NextControl]_vars

\* ------------------------------------------------------- CacheRegistry
CacheNames == {"x", "y"}

\* {...a, ...b}: a field that b gives overrides the one of a
Spread(a, b) == [f \in DOMAIN a |-> IF b[f] # NULL THEN b[f] ELSE a[f]]

\* new Neocache(options), not yet disposed by the registry
NewNeocache(opts) ==
    [self |-> [options |-> Merge(opts), cache |-> <<>>, oldCache |-> <<>>,
               timeToKeyBucket |-> <<>>, purgeExpiredTimer |-> NULL],
     removed |-> FALSE]

hasCache(reg, name) == MapHas(reg.caches, name)

createCache_Overwrite(reg, hp, name, opts) ==
    [threw |-> FALSE,
     registry |-> [reg EXCEPT !.caches = MapSet(@, name, Len(hp) + 1)],
     heap |-> Append(hp, NewNeocache(Spread(reg.defaultOptions, opts))),
     ret |-> Len(hp) + 1, deleted |-> FALSE]

\* createCache(name, options): throws if the name is taken, otherwise
\* constructs an engine, registers it and returns it
createCache(reg, hp, name, opts) ==
    IF MapHas(reg.caches, name)
    THEN [threw |-> TRUE, registry |-> reg, heap |-> hp, ret |-> NULL, deleted |-> FALSE]
    ELSE [threw |-> FALSE,
          registry |-> [reg EXCEPT !.caches = MapSet(@, name, Len(hp) + 1)],
          heap |-> Append(hp, NewNeocache(Spread(reg.defaultOptions, opts))),
          ret |-> Len(hp) + 1, deleted |-> FALSE]

getCache_AlwaysNew(reg, hp, name, opts) ==
    [threw |-> FALSE,
     registry |-> [reg EXCEPT !.caches = MapSet(@, name, Len(hp) + 1)],
     heap |-> Append(hp, NewNeocache(Spread(reg.defaultOptions, opts))),
     ret |-> Len(hp) + 1, deleted |-> FALSE]

\* getCache(name, options): constructs and registers an engine if the name
\* is absent, then returns this.caches.get(name)
getCache(reg, hp, name, opts) ==
    LET absent == ~MapHas(reg.caches, name)
        reg1 == IF absent THEN [reg EXCEPT !.caches = MapSet(@, name, Len(hp) + 1)] ELSE reg
        hp1 == IF absent THEN Append(hp, NewNeocache(Spread(reg.defaultOptions, opts))) ELSE hp
    IN [threw |-> FALSE, registry |-> reg1, heap |-> hp1, ret |-> MapGet(reg1.caches, name),
        deleted |-> FALSE]

removeCache_NoDispose(reg, hp, name) ==
    IF MapHas(reg.caches, name)
    THEN [threw |-> FALSE,
          registry |-> [reg EXCEPT !.caches = MapDelete(@, name)],
          heap |-> [hp EXCEPT ![MapGet(reg.caches, name)].removed = TRUE],
          ret |-> NULL, deleted |-> TRUE]
    ELSE [threw |-> FALSE, registry |-> reg, heap |-> hp, ret |-> NULL, deleted |-> FALSE]

removeCache_KeepName(reg, hp, name) ==
    IF MapHas(reg.caches, name)
    THEN [threw |-> FALSE,
          registry |-> reg,
          heap |-> [hp EXCEPT ![MapGet(reg.caches, name)] =
                        [self |-> dispose(@.self), removed |-> TRUE]],
          ret |-> NULL, deleted |-> TRUE]
    ELSE [threw |-> FALSE, registry |-> reg, heap |-> hp, ret |-> NULL, deleted |-> FALSE]

\* removeCache(name): disposes the engine of a registered name and returns
\* the result of this.caches.delete(name), false for an unknown name (the
\* boolean is the field deleted; ret is the engine a call returns)
removeCache(reg, hp, name) ==
    IF MapHas(reg.caches, name)
    THEN [threw |-> FALSE,
          registry |-> [reg EXCEPT !.caches = MapDelete(@, name)],
          heap |-> [hp EXCEPT ![MapGet(reg.caches, name)] =
                        [self |-> dispose(@.self), removed |-> TRUE]],
          ret |-> NULL, deleted |-> TRUE]
    ELSE [threw |-> FALSE, registry |-> reg, heap |-> hp, ret |-> NULL, deleted |-> FALSE]

\* Array.from(this.caches.keys())
getCacheNames(reg) == [i \in 1..Len(reg.caches) |-> reg.caches[i].key]

\* get size(): this.caches.size
registrySize(reg) == Len(reg.caches)

\* a call on the registry takes effect and its result is recorded
Called(op, name, r) ==
    /\ registry' = r.registry
    /\ heap' = r.heap
    /\ outcome' = [op |-> op, name |-> name, threw |-> r.threw, ret |-> r.ret,
                   deleted |-> r.deleted]

engineSide == <<given, options, engineVars, now, pending, latest, recency, ins, adds,
                track, nkeys, twin, disposed, intervals>>

CreateCache(name, opts) ==
    /\ Len(createCache(registry, heap, name, opts).heap) <= MaxEngines
    /\ Called("createCache", name, createCache(registry, heap, name, opts))
    /\ UNCHANGED <<engineSide, quota>>

GetCache(name, opts) ==
    /\ Len(getCache(registry, heap, name, opts).heap) <= MaxEngines
    /\ Called("getCache", name, getCache(registry, heap, name, opts))
    /\ UNCHANGED <<engineSide, quota>>

RemoveCache(name) ==
    /\ Called("removeCache", name, removeCache(registry, heap, name))
    /\ UNCHANGED <<engineSide, quota>>

\* a caller uses an engine the registry returned: set(id, 1, {expireTimeMs})
CacheSet(ref, id, ttl) ==
    /\ quota > 0
    /\ heap' = [heap EXCEPT ![ref].self = set(@, id, 1, ttl, now)]
    /\ quota' = quota - 1
    /\ UNCHANGED <<engineSide, registry, outcome>>

RegistryDefaults ==
    [defaultExpireTimeMs : {NULL}, purgeIntervalMs : {NULL, 0}, maxSize : {NULL}]

RegistryOptions ==
    [defaultExpireTimeMs : {NULL}, purgeIntervalMs : {NULL, PurgeInterval}, maxSize : {NULL}]

InitRegistry ==
    /\ Constructed({NoOptions}, MaxRegistrySets, 0, 0, 0)
    /\ registry \in {CacheRegistry(d) : d \in RegistryDefaults}
    /\ heap = <<>>
    /\ outcome = NoOutcome

NextRegistry ==
    \/ \E name \in CacheNames, opts \in RegistryOptions : CreateCache(name, opts)
    \/ \E name \in CacheNames, opts \in RegistryOptions : GetCache(name, opts)
    \/ \E name \in CacheNames : RemoveCache(name)
    \/ \E ref \in DOMAIN heap, ttl \in PerCallTtl : CacheSet(ref, "a", ttl)

SpecRegistry == InitRegistry /\ [][NextRegistry]_vars

\* ---------------------------------------------------------------- claims
\* what cache.get(id), called without a producer, returns in this state
GetRet(self, id, t) == get(self, id, FALSE, t).ret

Resident(self, id) == MapHas(self.cache, id) \/ MapHas(self.oldCache, id)

ResidentKeys(self) == MapKeys(self.cache) \cup MapKeys(self.oldCache)

\* the key was set and not invalidated since
Live(k) == latest[k].live

\* C1 as stated: get(k) without a producer returns not-found if and only if
\* k was never set, or was invalidated after its last set, or the time is at
\* or after the expireAt of its latest set - in every configuration. Stated
\* for the keys whose latest value is truthy.
C1_AsStated ==
    \A k \in Keys :
        (~Live(k) \/ Truthy(latest[k].data)) =>
            ((GetRet(This, k, now) = NULL) <=> (~Live(k) \/ now >= latest[k].expireTime))

\* C1 amended: get(k) without a producer returns not-found if and only if k
\* was never set, or was invalidated after its last set, or the time is at or
\* after the expireAt of its latest set, or a generation rotation has evicted
\* k, or the value of its latest set is falsy; otherwise it returns the value
\* of the latest set. Purge sweeps make no difference.
C1_TtlCorrectness ==
    \A k \in Keys :
        /\ (GetRet(This, k, now) = NULL) <=>
              \/ ~Live(k)
              \/ now >= latest[k].expireTime
              \/ ~Resident(This, k)
              \/ ~Truthy(latest[k].data)
        /\ GetRet(This, k, now) # NULL => GetRet(This, k, now) = latest[k].data

\* a key that was set, not invalidated and is not expired, but evicted, while
\* another key is expired and still resident (not purged)
C1_Witness ==
    \E k \in Keys, j \in Keys :
        /\ Live(k) /\ now < latest[k].expireTime /\ Truthy(latest[k].data)
        /\ ~Resident(This, k) /\ GetRet(This, k, now) = NULL
        /\ Live(j) /\ now >= latest[j].expireTime /\ Resident(This, j)

HoldsUnexpired(self, k, data, t) ==
    \/ /\ MapHas(self.cache, k)
       /\ MapGet(self.cache, k).expireTime > t
       /\ MapGet(self.cache, k).data = data
    \/ /\ MapHas(self.oldCache, k)
       /\ MapGet(self.oldCache, k).expireTime > t
       /\ MapGet(self.oldCache, k).data = data

\* C2: whenever get(k) returns a value, k holds an entry with that value and
\* an expireTime strictly after the current time, in cache or in oldCache,
\* before the call and after it.
C2_NoExpiredValue ==
    \A k \in Keys :
        LET r == get(This, k, FALSE, now)
        IN r.ret # NULL => /\ HoldsUnexpired(This, k, r.ret, now)
                           /\ HoldsUnexpired(r.self, k, r.ret, now)

\* get returns the value of a key held in oldCache only, while oldCache also
\* holds an expired entry that no sweep has removed and the timer is disposed
C2_Witness ==
    \E k \in Keys, j \in Keys :
        /\ GetRet(This, k, now) # NULL
        /\ ~MapHas(cache, k)
        /\ MapHas(oldCache, j) /\ MapGet(oldCache, j).expireTime <= now
        /\ DOMAIN timeToKeyBucket # {} /\ purgeExpiredTimer = NULL

\* C3: with maxSize = N the number of distinct resident keys is at most
\* 2N - 1 and the reported size is at most N.
C3_BoundedResidency ==
    options.maxSize # NULL =>
        /\ Cardinality(ResidentKeys(This)) <= 2 * options.maxSize - 1
        /\ size(This) <= options.maxSize

\* 2N - 1 keys are resident, N of them in oldCache, and size reports N
C3_Witness ==
    /\ options.maxSize = MaxMaxSize
    /\ Cardinality(ResidentKeys(This)) = 2 * options.maxSize - 1
    /\ Len(oldCache) = options.maxSize
    /\ size(This) = options.maxSize

\* C4 as stated: with maxSize = N, a key that is set, not invalidated and not
\* expired is not evicted - get returns its value (a falsy value aside) - as
\* long as fewer than N sets of other keys have happened since its last use
\* (its set or a get that returned it), whatever gets and sets of other keys
\* are interleaved.
C4_AsStated ==
    \A h \in Keys :
        (Live(h) /\ now < latest[h].expireTime /\ ins[h] < options.maxSize)
            => /\ Resident(This, h)
               /\ Truthy(latest[h].data) => GetRet(This, h, now) = latest[h].data

\* C4 amended: with maxSize = N, a key that is set, not invalidated and not
\* expired stays resident with the entry of its latest set, and get returns
\* its value unless the value is falsy, as long as fewer than N other keys
\* have been put into the current generation since getOnly last found it or
\* it was set - by a set of a key the current generation does not hold, or by
\* a get that promotes a key from the previous generation.
C4_HotKeyRetained ==
    \A h \in Keys :
        (Live(h) /\ now < latest[h].expireTime /\ adds[h] < options.maxSize)
            => /\ HoldsUnexpired(This, h, latest[h].data, now)
               /\ GetRet(This, h, now) =
                      IF Truthy(latest[h].data) THEN latest[h].data ELSE NULL

\* maxSize = 2: the hot key has seen one addition since its last use, a
\* rotation has moved it to oldCache, another key has been evicted meanwhile,
\* and get still returns the hot key
C4_Witness ==
    \E h \in Keys, e \in Keys :
        /\ options.maxSize = 2
        /\ Live(h) /\ now < latest[h].expireTime /\ adds[h] = 1
        /\ ~MapHas(cache, h) /\ MapHas(oldCache, h)
        /\ GetRet(This, h, now) = latest[h].data
        /\ e # h /\ Live(e) /\ now < latest[e].expireTime /\ ~Resident(This, e)

Before(seq, e, r) ==
    \E i \in 1..Len(seq), j \in 1..Len(seq) : i < j /\ seq[i] = e /\ seq[j] = r

Evicted(e) == Resident(This, e) /\ ~Resident(This', e) /\ ~Invalidate(e)

\* C5 as stated: in a step that is neither an invalidate nor a purge sweep,
\* every key that stops being resident was used (last set, or last get that
\* returned its value) less recently than every key that stays resident with
\* an unexpired entry.
C5_AsStated ==
    [][~PurgeTimer =>
        \A e \in Keys, r \in Keys :
            (Evicted(e) /\ getOnly(This', r, now').ret # NULL)
                => Before(recency', e, r)]_vars

\* C5 for the keys that get returns: every key that stops being resident was
\* used less recently than every key that get still returns after the step.
C5_LruOrder ==
    [][~PurgeTimer =>
        \A e \in Keys, r \in Keys :
            (Evicted(e) /\ GetRet(This', r, now') # NULL)
                => Before(recency', e, r)]_vars

\* maxSize = 2: the second key has been evicted while the first key, set
\* before it and refreshed since, is still returned by get
C5_Witness ==
    /\ options.maxSize = 2
    /\ Live(KeyOrder[2]) /\ now < latest[KeyOrder[2]].expireTime
    /\ ~Resident(This, KeyOrder[2])
    /\ GetRet(This, KeyOrder[1], now) # NULL
    /\ Before(recency, KeyOrder[2], KeyOrder[1])

\* C6 as stated: the engine with purgeIntervalMs and its twin without it,
\* given the same set / get / invalidate calls at the same times, return the
\* same result for every get.
C6_AsStated == \A k \in Keys : GetRet(This, k, now) = GetRet(twin, k, now)

\* C6 amended: when maxSize is not set, the engine with purgeIntervalMs and
\* its twin without it return the same result for every get.
C6_PurgeNonAuthoritative ==
    options.maxSize = NULL => \A k \in Keys : GetRet(This, k, now) = GetRet(twin, k, now)

\* maxSize is not set, a sweep has removed an expired entry that the twin
\* still holds, and both engines return the value of another key
C6_Witness ==
    \E k \in Keys, j \in Keys :
        /\ options.maxSize = NULL
        /\ Resident(twin, k) /\ ~Resident(This, k)
        /\ GetRet(This, j, now) # NULL /\ GetRet(twin, j, now) = GetRet(This, j, now)

SameEntry(self, other, k) ==
    /\ MapHas(self.cache, k) <=> MapHas(other.cache, k)
    /\ MapHas(self.cache, k) => MapGet(self.cache, k) = MapGet(other.cache, k)
    /\ MapHas(self.oldCache, k) <=> MapHas(other.oldCache, k)
    /\ MapHas(self.oldCache, k) => MapGet(self.oldCache, k) = MapGet(other.oldCache, k)

\* C7: invalidate(k) removes k from both generations, so get(k) returns
\* not-found right after it and until the next set(k); on an absent key it
\* changes nothing; it changes no other key's entry or what get returns for it.
C7_Invalidate ==
    /\ [](\A k \in Keys : ~Live(k) => ~Resident(This, k) /\ GetRet(This, k, now) = NULL)
    /\ [][\A k \in Keys : Invalidate(k) =>
            /\ ~Resident(This', k)
            /\ GetRet(This', k, now') = NULL
            /\ ~Resident(This, k) => UNCHANGED engineVars
            /\ \A j \in Keys \ {k} :
                  /\ SameEntry(This, This', j)
                  /\ GetRet(This', j, now') = GetRet(This, j, now)]_vars

\* Resolve(s, data) completes a read-through of pending[s].id
ReadThrough(s, data) ==
    LET k == pending[s].id
        expireTime == ExpireTimeOf(This, pending[s].ttl, now)
    IN  /\ MapHas(cache', k) \/ MapHas(oldCache', k)
        /\ HoldsUnexpired(This', k, data, now') <=> now' < expireTime
        /\ \/ MapHas(cache', k) /\ MapGet(cache', k) = CacheItem(data, expireTime)
           \/ ~MapHas(cache', k) /\ MapGet(oldCache', k) = CacheItem(data, expireTime)

\* C8 as stated: get(k, producer) reaches the producer when getOnly finds no
\* unexpired entry of k, and then once; when the producer fulfils, the value
\* is stored under k with the per-call TTL, or else the default, and a
\* following get(k) before expiry returns that value.
C8_AsStated ==
    [][/\ \A id \in Keys, ttl \in PerCallTtl :
            (Get(id, TRUE, ttl) /\ getOnly(This, id, now).ret = NULL) =>
                /\ Cardinality({s \in DOMAIN pending : pending'[s] # pending[s]}) = 1
                /\ \E s \in DOMAIN pending : pending'[s] = [id |-> id, ttl |-> ttl]
       /\ \A s \in DOMAIN pending, data \in Data :
            Resolve(s, data) =>
                /\ ReadThrough(s, data)
                /\ now' < ExpireTimeOf(This, pending[s].ttl, now)
                      => GetRet(This', pending[s].id, now') = data]_vars

\* C8 for a producer that fulfils with a truthy value
C8_ReadThroughTruthy ==
    [][/\ \A id \in Keys, ttl \in PerCallTtl :
            (Get(id, TRUE, ttl) /\ getOnly(This, id, now).ret = NULL) =>
                /\ Cardinality({s \in DOMAIN pending : pending'[s] # pending[s]}) = 1
                /\ \E s \in DOMAIN pending : pending'[s] = [id |-> id, ttl |-> ttl]
       /\ \A s \in DOMAIN pending, data \in Data :
            Resolve(s, data) =>
                /\ ReadThrough(s, data)
                /\ (Truthy(data) /\ now' < ExpireTimeOf(This, pending[s].ttl, now))
                      => GetRet(This', pending[s].id, now') = data]_vars

\* C9 as stated: when getOnly finds an unexpired entry of k, whatever its
\* payload, get(k, producer) does not reach the producer and returns the
\* stored payload.
C9_AsStated ==
    \A k \in Keys :
        LET stored == getOnly(This, k, now).ret
        IN stored # NULL => /\ ~get(This, k, TRUE, now).fetch
                            /\ get(This, k, TRUE, now).ret = stored

\* C9 for truthy payloads
C9_NoFetchOnTruthyHit ==
    \A k \in Keys :
        LET stored == getOnly(This, k, now).ret
        IN Truthy(stored) => /\ ~get(This, k, TRUE, now).fetch
                             /\ get(This, k, TRUE, now).ret = stored

\* C10 as stated: a get(k, producer) whose producer fails leaves the engine
\* as it was - neither the part of the call before the producer runs nor the
\* rejection changes cache, oldCache, the buckets or the timer.
C10_AsStated ==
    [][/\ \A id \in Keys, ttl \in PerCallTtl :
            (Get(id, TRUE, ttl) /\ pending' # pending) => UNCHANGED engineVars
       /\ \A s \in DOMAIN pending : Reject(s) => UNCHANGED engineVars]_vars

\* C10 for calls that find no unexpired entry of k
C10_FailureAfterMiss ==
    [][/\ \A id \in Keys, ttl \in PerCallTtl :
            (Get(id, TRUE, ttl) /\ pending' # pending /\ getOnly(This, id, now).ret = NULL)
                => UNCHANGED engineVars
       /\ \A s \in DOMAIN pending : Reject(s) => UNCHANGED engineVars]_vars

\* the entry getOnly consults for k: cache is looked up before oldCache
ServedEntry(self, k) ==
    IF MapHas(self.cache, k) THEN MapGet(self.cache, k) ELSE MapGet(self.oldCache, k)

\* C11 as stated: while k is set, not invalidated, not expired and not
\* evicted, get(k) returns the value of the latest set(k); and get(k) never
\* returns anything but the value of the latest set(k).
C11_AsStated ==
    \A k \in Keys :
        /\ (Live(k) /\ now < latest[k].expireTime /\ Resident(This, k))
              => GetRet(This, k, now) = latest[k].data
        /\ GetRet(This, k, now) # NULL => GetRet(This, k, now) = latest[k].data

\* C11 for what getOnly finds: while k is set, not invalidated, not expired
\* and not evicted, getOnly finds the entry written by the latest set(k), and
\* it never finds an entry written by an earlier set, also while oldCache
\* holds an older copy and after the newer copy has expired.
C11_NoStaleRead ==
    \A k \in Keys :
        /\ (Live(k) /\ now < latest[k].expireTime /\ Resident(This, k))
              => getOnly(This, k, now).ret = latest[k].data
        /\ getOnly(This, k, now).ret # NULL =>
              /\ Live(k)
              /\ ServedEntry(This, k) = CacheItem(latest[k].data, latest[k].expireTime)

\* oldCache holds an older, unexpired copy of a key whose newer copy in cache
\* has expired
C11_StaleCopyHeld ==
    \E k \in Keys :
        /\ MapHas(cache, k) /\ MapGet(cache, k).expireTime <= now
        /\ MapHas(oldCache, k) /\ MapGet(oldCache, k).expireTime > now

\* C12: a get(k, producer) that misses while another call for k is still in
\* its producer invokes its own producer (one more call in flight, the other
\* untouched); each producer that completes writes its result under k and
\* ends only its own call, so the entry of k is that of the producer that
\* completed last.
C12_NoSingleFlight ==
    /\ [](\A k \in Keys :
            ((\E s \in DOMAIN pending : pending[s].id = k) /\ getOnly(This, k, now).ret = NULL)
                => get(This, k, TRUE, now).fetch)
    /\ [][/\ \A id \in Keys, ttl \in PerCallTtl :
              (Get(id, TRUE, ttl) /\ getOnly(This, id, now).ret = NULL) =>
                  \E s \in DOMAIN pending :
                      /\ pending[s] = NoCall
                      /\ pending' = [pending EXCEPT ![s] = [id |-> id, ttl |-> ttl]]
         /\ \A s \in DOMAIN pending, data \in Data :
              Resolve(s, data) =>
                  /\ ServedEntry(This', pending[s].id).data = data
                  /\ pending' = [pending EXCEPT ![s] = NoCall]]_vars

\* two calls for the same key are in their producers, the key still missing
C12_Witness ==
    \E k \in Keys, s1 \in DOMAIN pending, s2 \in DOMAIN pending :
        /\ s1 # s2 /\ pending[s1].id = k /\ pending[s2].id = k
        /\ getOnly(This, k, now).ret = NULL

\* the expireTime set gives to an entry written at time t
ExpireAt(ttl, t) ==
    IF ttl # NULL THEN t + ttl
    ELSE IF options.defaultExpireTimeMs > 0 THEN t + options.defaultExpireTimeMs
    ELSE POSITIVE_INFINITY

\* C19: set(k, v, ttl) at time s with a per-call ttl > 0 gives k the
\* expireTime s + ttl whatever defaultExpireTimeMs is; without a per-call TTL
\* it gives s + defaultExpireTimeMs (never, for defaultExpireTimeMs 0); the
\* write-back of get(k, producer, ttl) follows the same rule with s the time
\* at which the producer completed.
C19_PerCallTtl ==
    [][/\ \A id \in Keys, data \in Data, ttl \in PerCallTtl :
            Set(id, data, ttl) => ServedEntry(This', id).expireTime = ExpireAt(ttl, now)
       /\ \A s \in DOMAIN pending, data \in Data :
            Resolve(s, data) =>
                ServedEntry(This', pending[s].id).expireTime = ExpireAt(pending[s].ttl, now)]_vars

\* one key holds an entry only a per-call TTL at time 0 gives, another one an
\* entry only the default TTL at the latest time gives
C19_Witness ==
    \E k \in Keys, j \in Keys :
        /\ MaxTtl < options.defaultExpireTimeMs
        /\ Resident(This, k) /\ ServedEntry(This, k).expireTime = MaxTtl
        /\ Resident(This, j)
        /\ ServedEntry(This, j).expireTime = MaxTime + options.defaultExpireTimeMs

\* C13: in every reachable state size is the number of distinct resident
\* keys, |oldCache| + |{k in cache : k not in oldCache}|, expired entries
\* included, capped at maxSize when maxSize is configured - also when cache
\* is empty.
C13_SizeFormula ==
    LET n == Len(oldCache) + Cardinality({k \in MapKeys(cache) : ~MapHas(oldCache, k)})
    IN  /\ n = Cardinality(ResidentKeys(This))
        /\ size(This) = IF options.maxSize = NULL THEN n ELSE Min(n, options.maxSize)

\* more than maxSize distinct keys are resident, one of them expired and not
\* purged, cache is not empty and size reports maxSize
C13_Witness ==
    /\ options.maxSize # NULL
    /\ cache # <<>>
    /\ Cardinality(ResidentKeys(This)) > options.maxSize
    /\ size(This) = options.maxSize
    /\ \E k \in ResidentKeys(This) : ServedEntry(This, k).expireTime <= now

\* C14: with maxSize = N, no expiry and no invalidate, once N distinct keys
\* have been set, size is exactly N after every get and set.
C14_SizeSaturates ==
    Cardinality({k \in Keys : Live(k)}) >= options.maxSize => size(This) = options.maxSize

\* maxSize = 2 and three keys set: one has been evicted, a promotion has put
\* a key of oldCache into cache as well, and size reports 2
C14_Witness ==
    /\ options.maxSize = 2
    /\ \E k \in Keys : Live(k) /\ ~Resident(This, k)
    /\ \E k \in Keys : MapHas(cache, k) /\ MapHas(oldCache, k)
    /\ size(This) = 2

\* an entry with a finite expireTime e, not set again and not invalidated: it
\* is gone from the store at e + 2 * purgeIntervalMs; from e on get returns
\* not-found, and size counts the entry exactly while it is resident
Reclaimed(k) ==
    LET e == latest[k].expireTime
    IN (Live(k) /\ e < POSITIVE_INFINITY) =>
          /\ now >= e + 2 * options.purgeIntervalMs => ~Resident(This, k)
          /\ now >= e => GetRet(This, k, now) = NULL

\* C15 as stated: with the timer firing once per purgeIntervalMs and no
\* dispose, an entry set with a finite expireTime e and not set again is
\* removed by a sweep no later than e + 2 * purgeIntervalMs; from e on get
\* returns not-found.
C15_AsStated == \A k \in Keys : Reclaimed(k)

\* What holds of purgeExpired: the same when maxSize is not set, where every
\* entry stays in cache; size is then the number of resident keys, so it
\* counts the expired entry until the sweep and no longer after it. With
\* maxSize set, purgeExpired looks the key up in cache only and skips an
\* entry that a rotation has moved to oldCache.
C15_ReclaimBounded ==
    options.maxSize = NULL =>
        /\ \A k \in Keys : Reclaimed(k)
        /\ size(This) = Cardinality(ResidentKeys(This))

\* maxSize is not set: one expired entry has been removed by a sweep, another
\* expired entry is still resident and counted by size
C15_Witness ==
    \E k \in Keys, j \in Keys :
        /\ options.maxSize = NULL
        /\ Live(k) /\ latest[k].expireTime <= now /\ ~Resident(This, k)
        /\ Live(j) /\ latest[j].expireTime <= now /\ Resident(This, j)
        /\ size(This) = 1

InBucket(self, k) ==
    \E b \in DOMAIN self.timeToKeyBucket :
        \E i \in 1..Len(self.timeToKeyBucket[b]) : self.timeToKeyBucket[b][i] = k

\* C21: with maxSize = N, no expiry and no invalidate, a key that is set and
\* then never accessed again is evicted: once 2N other keys have been put
\* into cache since its set or since getOnly last found it - each set of a
\* distinct new key puts one in, and so does each get that promotes another
\* key - it is in neither generation and get returns not-found.
C21_ColdKeyEvicted ==
    \A k \in Keys :
        (Live(k) /\ adds[k] >= 2 * options.maxSize) =>
            ~Resident(This, k) /\ GetRet(This, k, now) = NULL

\* maxSize = 2: a cold key is gone after four additions, two other keys are
\* retrievable
C21_Witness ==
    \E k \in Keys :
        /\ options.maxSize = 2 /\ Live(k) /\ adds[k] = 4
        /\ ~Resident(This, k) /\ GetRet(This, k, now) = NULL
        /\ \A j \in Keys \ {k} : GetRet(This, j, now) = 1

Unexpired(self, k, t) == Resident(self, k) /\ ServedEntry(self, k).expireTime > t

\* C26 as stated: getRandomItems(count) returns min(count, number of
\* unexpired resident entries) values, each the value of an unexpired entry
\* held in cache or in oldCache.
C26_AsStated ==
    \A count \in 0..MaxCount : \A ret \in getRandomItems(This, count, now) :
        /\ Len(ret) = Min(count, Cardinality({k \in Keys : Unexpired(This, k, now)}))
        /\ \A i \in 1..Len(ret) :
              \E k \in Keys : Unexpired(This, k, now) /\ ServedEntry(This, k).data = ret[i]

\* What holds of getRandomItems: it draws from cache alone - min(count,
\* number of unexpired entries of cache) values of distinct unexpired keys of
\* cache - and entries held in oldCache only are never returned.
C26_RandomFromCache ==
    \A count \in 0..MaxCount : \A ret \in getRandomItems(This, count, now) :
        LET valid == {k \in MapKeys(cache) : MapGet(cache, k).expireTime > now}
        IN /\ Len(ret) = Min(count, Cardinality(valid))
           /\ \E ks \in [1..Len(ret) -> valid] :
                 /\ \A i, j \in 1..Len(ret) : ks[i] = ks[j] => i = j
                 /\ \A i \in 1..Len(ret) : ret[i] = MapGet(cache, ks[i]).data

\* C27 as stated: in every reachable state a key appears in at most one of
\* the two generation maps.
C27_AsStated == \A k \in Keys : ~(MapHas(cache, k) /\ MapHas(oldCache, k))

\* What holds of the generations: a key can be in both, and whenever a key
\* is in cache the entry there is the one its latest set wrote.
C27_CurrentIsLatest ==
    \A k \in Keys :
        MapHas(cache, k) =>
            /\ Live(k)
            /\ MapGet(cache, k) = CacheItem(latest[k].data, latest[k].expireTime)

\* get(id) finds an unexpired entry of id in oldCache only and promotes it
Promotes(id) ==
    /\ ~MapHas(cache, id) /\ MapHas(oldCache, id)
    /\ ~Expired(MapGet(oldCache, id), now)
    /\ Get(id, FALSE, NULL)

\* the insertion of id brings cache to maxSize entries
Fills(id) ==
    ReachedMaxSize(Len(cache) + (IF MapHas(cache, id) THEN 0 ELSE 1), options.maxSize)

Inserts(id) == Promotes(id) \/ \E data \in Data, ttl \in PerCallTtl : Set(id, data, ttl)

\* C28 as stated: immediately after every set(k, v), and after every
\* promotion of k by get, the key k is a member of cache, and cache never
\* holds more than maxSize entries.
C28_AsStated ==
    /\ [][\A id \in Keys : Inserts(id) => MapHas(cache', id)]_vars
    /\ [](options.maxSize # NULL => Len(cache) <= options.maxSize)

\* What holds of set and of a promotion: the key is inserted first and the
\* rotation test comes after, so the key ends in cache, or - when the
\* insertion filled cache - in oldCache with cache left empty; cache always
\* holds fewer than maxSize entries.
C28_InsertThenRotate ==
    /\ [][\A id \in Keys : Inserts(id) =>
              IF Fills(id)
              THEN cache' = <<>> /\ MapHas(oldCache', id) /\ Len(oldCache') = options.maxSize
              ELSE MapHas(cache', id) /\ oldCache' = oldCache]_vars
    /\ [](options.maxSize # NULL => Len(cache) < options.maxSize)

\* a step that rotates the generations
RotationStep == \E id \in Keys : Inserts(id) /\ Fills(id)

\* C29 as stated: an unexpired, non-invalidated key stops being retrievable
\* only in a step that rotates the generations; a rotation happens exactly
\* when cache reaches maxSize entries, discards exactly the keys held only in
\* oldCache, and every key that was in cache just before it is still
\* retrievable right after it.
C29_AsStated ==
    [][/\ \A k \in Keys :
            (/\ GetRet(This, k, now) # NULL /\ GetRet(This', k, now') = NULL
             /\ Live(k)' /\ now' < latest'[k].expireTime) => RotationStep
       /\ \A id \in Keys :
            Inserts(id) =>
                /\ ~Fills(id) =>
                      /\ oldCache' = oldCache
                      /\ MapKeys(cache') = MapKeys(cache) \cup {id}
                /\ Fills(id) =>
                      /\ cache' = <<>>
                      /\ MapKeys(oldCache') = MapKeys(cache) \cup {id}
                      /\ \A j \in MapKeys(cache) :
                            GetRet(This, j, now) # NULL => GetRet(This', j, now') # NULL]_vars

\* What holds of eviction: the same for entries with a truthy value - a key
\* whose entry is unexpired and not invalidated leaves the store only in a
\* step that rotates the generations, and get stops returning it only in
\* such a step or when a set gives it a falsy value.
C29_EvictionOnlyAtRotation ==
    [][/\ \A k \in Keys :
            (/\ Resident(This, k) /\ ~Resident(This', k)
             /\ Live(k)' /\ now' < latest'[k].expireTime) => RotationStep
       /\ \A k \in Keys :
            (/\ GetRet(This, k, now) # NULL /\ GetRet(This', k, now') = NULL
             /\ Live(k)' /\ now' < latest'[k].expireTime /\ Truthy(latest'[k].data))
                => RotationStep
       /\ \A id \in Keys :
            Inserts(id) =>
                /\ ~Fills(id) =>
                      /\ oldCache' = oldCache
                      /\ MapKeys(cache') = MapKeys(cache) \cup {id}
                /\ Fills(id) =>
                      /\ cache' = <<>>
                      /\ MapKeys(oldCache') = MapKeys(cache) \cup {id}
                      /\ \A j \in MapKeys(cache) \ {id} :
                            GetRet(This, j, now) # NULL => GetRet(This', j, now') # NULL]_vars

\* C30: a get that hits an unexpired key held in oldCache puts it into the
\* live generation (the rotation test applied) with the same value and the
\* same expireTime; no get changes the entry served for a key that stays
\* resident, adds a bucket registration or touches the timer; the expireTime
\* served for a resident key changes only in a set or in the write-back of a
\* producer.
C30_PromotionPreserves ==
    [][/\ \A id \in Keys, hasFetch \in BOOLEAN, ttl \in PerCallTtl :
            (quota' = quota /\ now' = now /\ Get(id, hasFetch, ttl)) =>
                /\ timeToKeyBucket' = timeToKeyBucket
                /\ purgeExpiredTimer' = purgeExpiredTimer
                /\ \A j \in Keys :
                      Resident(This', j) =>
                          Resident(This, j) /\ ServedEntry(This', j) = ServedEntry(This, j)
                /\ Unexpired(This, id, now) => Resident(This', id)
                /\ (~MapHas(cache, id) /\ Unexpired(This, id, now)) =>
                      IF Fills(id) THEN cache' = <<>> /\ MapGet(oldCache', id) = MapGet(oldCache, id)
                      ELSE MapGet(cache', id) = MapGet(oldCache, id)
       /\ \A j \in Keys :
            (/\ Resident(This, j) /\ Resident(This', j)
             /\ ServedEntry(This', j).expireTime # ServedEntry(This, j).expireTime) =>
                \/ \E data \in Data, ttl \in PerCallTtl : Set(j, data, ttl)
                \/ \E s \in DOMAIN pending, data \in Data :
                        pending[s].id = j /\ Resolve(s, data)]_vars

\* maxSize = 2, two sets made: a key promoted from oldCache is in cache with
\* the entry of its set, which carries a per-call TTL, and oldCache still
\* holds it
C30_Witness ==
    \E k \in Keys :
        /\ options.maxSize = 2 /\ quota = MaxLruSets - 2
        /\ MapHas(cache, k) /\ MapHas(oldCache, k)
        /\ MapGet(cache, k) = MapGet(oldCache, k)
        /\ Live(k) /\ MapGet(cache, k).expireTime = latest[k].expireTime
        /\ latest[k].expireTime < POSITIVE_INFINITY

\* C22: createCache(name) for a registered name throws and leaves the
\* registry unchanged - the name still maps to the original engine, no engine
\* is constructed, size and the name list are as before.
C22_RegistryConflict ==
    [][\A name \in CacheNames, opts \in RegistryOptions :
          (hasCache(registry, name) /\ CreateCache(name, opts)) =>
              /\ outcome'.threw
              /\ MapGet(registry'.caches, name) = MapGet(registry.caches, name)
              /\ heap' = heap
              /\ registrySize(registry') = registrySize(registry)
              /\ getCacheNames(registry') = getCacheNames(registry)
              /\ registry' = registry]_vars

\* both names are registered and the latest createCache threw
C22_Witness ==
    /\ outcome.op = "createCache" /\ outcome.threw
    /\ hasCache(registry, outcome.name)
    /\ registrySize(registry) = 2 /\ Len(heap) = 2

\* C23: getCache(name) never throws; it constructs and registers an engine
\* only when the name is absent and otherwise returns the registered engine;
\* the engine of a registered name changes in no step but removeCache(name),
\* whatever options the calls carry and whatever happens to other names.
C23_GetOrCreate ==
    /\ [][\A name \in CacheNames, opts \in RegistryOptions :
            GetCache(name, opts) =>
                /\ ~outcome'.threw
                /\ outcome'.ret = MapGet(registry'.caches, name)
                /\ IF hasCache(registry, name)
                   THEN /\ outcome'.ret = MapGet(registry.caches, name)
                        /\ heap' = heap /\ registry' = registry
                   ELSE /\ heap' = Append(heap, NewNeocache(Spread(registry.defaultOptions, opts)))
                        /\ outcome'.ret = Len(heap')]_vars
    /\ [][\A name \in CacheNames :
            hasCache(registry, name) =>
                \/ /\ hasCache(registry', name)
                   /\ MapGet(registry'.caches, name) = MapGet(registry.caches, name)
                \/ RemoveCache(name)]_vars

\* the latest getCache returned the first engine, registered before another
\* engine was constructed and used since (its timer runs)
C23_Witness ==
    /\ outcome.op = "getCache" /\ outcome.ret = 1
    /\ Len(heap) >= 2
    /\ heap[1].self.purgeExpiredTimer # NULL

\* C24: removeCache(name) on a registered name disposes its engine (the
\* purge timer is stopped), unregisters the name and returns true; on an
\* unregistered name it returns false and changes nothing; every other
\* registered name keeps its engine and that engine its state.
C24_RemoveCache ==
    [][\A name \in CacheNames :
          RemoveCache(name) =>
              IF hasCache(registry, name)
              THEN LET ref == MapGet(registry.caches, name)
                   IN /\ outcome'.deleted
                      /\ heap'[ref].self = [heap[ref].self EXCEPT !.purgeExpiredTimer = NULL]
                      /\ ~hasCache(registry', name)
                      /\ \A other \in CacheNames \ {name} :
                            hasCache(registry, other) =>
                                /\ hasCache(registry', other)
                                /\ MapGet(registry'.caches, other) = MapGet(registry.caches, other)
                      /\ \A r \in DOMAIN heap \ {ref} : heap'[r] = heap[r]
              ELSE /\ ~outcome'.deleted
                   /\ registry' = registry /\ heap' = heap]_vars

\* removeCache returned true for an engine whose timer was running (it has a
\* bucket) and is stopped now, while the engine of the other name keeps its
\* running timer
C24_Witness ==
    \E ref \in DOMAIN heap, other \in CacheNames :
        /\ outcome.op = "removeCache" /\ outcome.deleted
        /\ heap[ref].removed
        /\ heap[ref].self.timeToKeyBucket # <<>>
        /\ heap[ref].self.purgeExpiredTimer = NULL
        /\ hasCache(registry, other)
        /\ heap[MapGet(registry.caches, other)].self.purgeExpiredTimer # NULL

\* C25: the registry size equals the number of names getCacheNames returns,
\* the names are distinct, hasCache(n) is true exactly for them, and names
\* and engines correspond one to one: every engine the registry constructed
\* and has not removed is registered under exactly one name, a removed one
\* under none.
C25_RegistryConsistent ==
    LET names == getCacheNames(registry)
    IN /\ registrySize(registry) = Len(names)
       /\ \A i, j \in 1..Len(names) : names[i] = names[j] => i = j
       /\ \A n \in CacheNames : hasCache(registry, n) <=> \E i \in 1..Len(names) : names[i] = n
       /\ \A n \in CacheNames : hasCache(registry, n) => MapGet(registry.caches, n) \in DOMAIN heap
       /\ \A ref \in DOMAIN heap :
             Cardinality({n \in CacheNames :
                            hasCache(registry, n) /\ MapGet(registry.caches, n) = ref})
                 = IF heap[ref].removed THEN 0 ELSE 1

\* three engines were constructed, one has been removed, two names are
\* registered
C25_Witness ==
    /\ Len(heap) = 3 /\ registrySize(registry) = 2
    /\ \E ref \in DOMAIN heap : heap[ref].removed
    /\ outcome.op = "getCache"

\* C16 as stated: after dispose() has returned no purge sweep of the engine
\* runs at any later time, whatever get, set or invalidate calls follow.
C16_AsStated == [][PurgeTimer => ~disposed]_vars

\* What holds of dispose: it clears the timer, and a cleared timer is armed
\* again only by a step that writes an entry with a finite expireTime (set
\* calls setUpPurgeExpiredTimer, which does not know of an earlier dispose).
C16_StoppedUntilRearmed ==
    /\ [][Dispose => purgeExpiredTimer' = NULL]_vars
    /\ [][(purgeExpiredTimer = NULL /\ purgeExpiredTimer' # NULL) =>
              /\ quota' < quota
              /\ \E k \in Keys : /\ latest'[k].expireTime < POSITIVE_INFINITY
                                 /\ InBucket(This', k)
                                 /\ timeToKeyBucket' # timeToKeyBucket]_vars

\* C17 as stated: if the options given at construction leave purgeIntervalMs
\* absent or give zero, no purge timer is ever started and the bucket index
\* stays empty.
C17_AsStated ==
    given.purgeIntervalMs \in {NULL, 0} =>
        purgeExpiredTimer = NULL /\ timeToKeyBucket = <<>>

\* C17 amended: the same for purgeIntervalMs given as zero (an absent
\* purgeIntervalMs takes the default of the class and purges); get alone
\* enforces expiration then and returns not-found for expired entries.
C17_NoPurgeWhenZero ==
    given.purgeIntervalMs = 0 =>
        /\ purgeExpiredTimer = NULL
        /\ timeToKeyBucket = <<>>
        /\ \A k \in Keys :
              (Live(k) /\ latest[k].expireTime <= now) => GetRet(This, k, now) = NULL

\* purgeIntervalMs given as zero: an expired entry with a truthy value is
\* still in the store, no sweep having removed it, and get returns not-found
C17_Witness ==
    \E k \in Keys :
        /\ given.purgeIntervalMs = 0
        /\ Live(k) /\ latest[k].expireTime <= now /\ Truthy(latest[k].data)
        /\ Resident(This, k) /\ GetRet(This, k, now) = NULL

\* a set without a per-call TTL gives an entry that never expires and leaves
\* the bucket index as it was
SetsForever ==
    \A id \in Keys, data \in Data :
        Set(id, data, NULL) =>
            /\ ServedEntry(This', id).expireTime = POSITIVE_INFINITY
            /\ timeToKeyBucket' = timeToKeyBucket

\* an entry that never expires is returned by get (a truthy value) for as
\* long as it is resident, that is until it is invalidated or evicted
ForeverServed ==
    \A k \in Keys :
        (Live(k) /\ latest[k].expireTime = POSITIVE_INFINITY /\ Resident(This, k)
            /\ Truthy(latest[k].data)) => GetRet(This, k, now) = latest[k].data

\* C18 as stated: if the options given at construction leave
\* defaultExpireTimeMs absent or give zero, an entry set without a per-call TTL
\* never expires - get returns its (truthy) value at every later time until it
\* is invalidated, overwritten or evicted - and its key is not registered in a
\* time bucket.
C18_AsStated ==
    /\ [][given.defaultExpireTimeMs \in {NULL, 0} => SetsForever]_vars
    /\ []ForeverServed

\* C18 amended: the same for defaultExpireTimeMs given as zero (an absent
\* defaultExpireTimeMs takes the default of the class); get returns the value
\* unless it is falsy.
C18_NeverExpiresWhenZero ==
    /\ [][given.defaultExpireTimeMs = 0 => SetsForever]_vars
    /\ []ForeverServed
    /\ [](\A k \in Keys :
            (Live(k) /\ Resident(This, k) /\ ~Truthy(latest[k].data)) =>
                GetRet(This, k, now) = NULL)

\* defaultExpireTimeMs given as zero, purge enabled: at the latest time get
\* still returns the value of an entry set without a per-call TTL, and the
\* bucket index is empty
C18_Witness ==
    \E k \in Keys :
        /\ given.defaultExpireTimeMs = 0 /\ Truthy(options.purgeIntervalMs)
        /\ now = MaxTime
        /\ Live(k) /\ latest[k].expireTime = POSITIVE_INFINITY
        /\ GetRet(This, k, now) = 1
        /\ timeToKeyBucket = <<>>

\* C20 as stated: with maxSize absent no rotation ever happens, oldCache
\* stays empty, and every key that was set remains retrievable until it
\* expires or is invalidated.
C20_AsStated ==
    given.maxSize = NULL =>
        /\ oldCache = <<>>
        /\ \A k \in Keys :
              (Live(k) /\ now < latest[k].expireTime) =>
                  GetRet(This, k, now) = latest[k].data

\* What holds with maxSize absent: oldCache stays empty, every set key stays
\* in cache until it is invalidated or purged, and get returns the value of
\* an unexpired key when that value is truthy.
C20_Unbounded ==
    given.maxSize = NULL =>
        /\ oldCache = <<>>
        /\ size(This) = Len(cache)
        /\ \A k \in Keys :
              (Live(k) /\ now < latest[k].expireTime) =>
                  /\ MapHas(cache, k)
                  /\ Truthy(latest[k].data) => GetRet(This, k, now) = latest[k].data

\* getOnly(id) takes the entry of cache and finds it unexpired
HitsCurrent(self, id, t) == MapHas(self.cache, id) /\ ~Expired(MapGet(self.cache, id), t)

\* getOnly(id) finds no entry, or an expired one in the generation it consults
MissesStore(self, id, t) ==
    \/ ~Resident(self, id)
    \/ Expired(ServedEntry(self, id), t)

NowBucket(self, t) == t \div self.options.purgeIntervalMs

Listed(self, b) == {BucketGet(self.timeToKeyBucket, b)[i] :
                        i \in 1..Len(BucketGet(self.timeToKeyBucket, b))}

\* the sweep removes the bucket it processed and touches no other bucket
DropsOnlyNowBucket ==
    /\ NowBucket(This, now) \notin DOMAIN timeToKeyBucket'
    /\ DOMAIN timeToKeyBucket' = DOMAIN timeToKeyBucket \ {NowBucket(This, now)}
    /\ \A b \in DOMAIN timeToKeyBucket' : timeToKeyBucket'[b] = timeToKeyBucket[b]

\* C32 as stated: when the timer fires at time now, every key listed in
\* bucket floor(now / purgeIntervalMs) that is still resident, in cache or in
\* oldCache, with an expireTime in the past is gone from both generations
\* afterwards; the bucket is removed from the index whatever the state of its
\* keys, and no other bucket is touched.
C32_AsStated ==
    [][PurgeTimer =>
          /\ \A k \in Listed(This, NowBucket(This, now)) :
                (Resident(This, k) /\ ServedEntry(This, k).expireTime < now)
                    => ~Resident(This', k)
          /\ DropsOnlyNowBucket]_vars

\* What holds of purgeExpired: the same for the listed keys that cache holds
\* (the sweep looks a key up in cache only; see C15) - such a key is removed
\* from both generations iff its entry in cache has an expireTime in the
\* past; every other entry of either generation stays as it was.
C32_SweepOfCurrent ==
    [][PurgeTimer =>
          /\ \A k \in Keys :
                IF k \in Listed(This, NowBucket(This, now)) /\ PurgeHit(This, k, now)
                THEN ~Resident(This', k)
                ELSE SameEntry(This, This', k)
          /\ DropsOnlyNowBucket]_vars

\* C33: a purge sweep never removes an entry that get would still return:
\* the entry served for a key that a sweep removes has an expireTime before
\* now, and what get returns for any key is the same after the sweep. A key
\* listed in the swept bucket whose entry was set again and is not yet past
\* its expireTime is skipped; and while an entry with a finite expireTime e
\* is unexpired, its key is listed in bucket floor(e / purgeIntervalMs) + 1.
C33_SweepSparesLive ==
    /\ [][PurgeTimer =>
            \A k \in Keys :
                /\ (Resident(This, k) /\ ~Resident(This', k))
                        => ServedEntry(This, k).expireTime < now
                /\ GetRet(This', k, now') = GetRet(This, k, now)
                /\ (/\ k \in Listed(This, NowBucket(This, now))
                    /\ Resident(This, k)
                    /\ ServedEntry(This, k).expireTime >= now) => SameEntry(This, This', k)]_vars
    /\ [](\A k \in Keys :
            (/\ Truthy(options.purgeIntervalMs)
             /\ Unexpired(This, k, now)
             /\ ServedEntry(This, k).expireTime < POSITIVE_INFINITY)
                => k \in Listed(This, TimeKey(ServedEntry(This, k).expireTime,
                                              options.purgeIntervalMs)))

\* one key, set twice with finite expireTimes: its first registration was in
\* a bucket that has been swept and dropped, the entry of the second set is
\* still returned by get and is listed in the bucket after its expireTime
C33_Witness ==
    LET k == KeyOrder[1]
    IN /\ nkeys = 1 /\ quota = MaxSets - 2
       /\ options.defaultExpireTimeMs = DefaultTtl /\ options.purgeIntervalMs = PurgeInterval
       /\ now = PurgeInterval /\ purgeExpiredTimer = 2 * PurgeInterval
       /\ GetRet(This, k, now) = 1
       /\ DOMAIN timeToKeyBucket = {TimeKey(latest[k].expireTime, PurgeInterval)}
       /\ timeToKeyBucket[TimeKey(latest[k].expireTime, PurgeInterval)] = <<k>>

\* C34: a set of key k with a finite expireTime e and purgeIntervalMs = I > 0
\* appends k to the key list of bucket floor(e / I) + 1 and changes no other
\* bucket; a set with an infinite expireTime, or with purge disabled, changes
\* no bucket and does not start the timer.
C34_BucketRegistration ==
    [][\A id \in Keys, data \in Data, ttl \in PerCallTtl :
          Set(id, data, ttl) =>
              LET e == ExpireAt(ttl, now)
                  I == options.purgeIntervalMs
                  b == (e \div I) + 1
              IN IF e < POSITIVE_INFINITY /\ I # NULL /\ I > 0
                 THEN /\ DOMAIN timeToKeyBucket' = DOMAIN timeToKeyBucket \cup {b}
                      /\ timeToKeyBucket'[b] =
                            Append(IF b \in DOMAIN timeToKeyBucket
                                   THEN timeToKeyBucket[b] ELSE <<>>, id)
                      /\ \A c \in DOMAIN timeToKeyBucket \ {b} :
                            timeToKeyBucket'[c] = timeToKeyBucket[c]
                 ELSE /\ timeToKeyBucket' = timeToKeyBucket
                      /\ purgeExpiredTimer' = purgeExpiredTimer]_vars

\* purge enabled, default TTL 0: the first key was set without a TTL (it
\* never expires and is in no bucket), the second with a per-call TTL; the
\* second key is the only one listed, in the bucket after its expireTime
C34_Witness ==
    LET k == KeyOrder[1]
        j == KeyOrder[2]
    IN /\ options.defaultExpireTimeMs = 0 /\ options.purgeIntervalMs = PurgeInterval
       /\ quota = MaxSets - 2
       /\ Live(k) /\ latest[k].expireTime = POSITIVE_INFINITY /\ ~InBucket(This, k)
       /\ Live(j) /\ latest[j].expireTime = PurgeInterval + 1
       /\ DOMAIN timeToKeyBucket = {2}
       /\ timeToKeyBucket[2] = <<j>>
       /\ purgeExpiredTimer # NULL

\* the buckets whose key list holds k
BucketsOf(self, k) == {b \in DOMAIN self.timeToKeyBucket : k \in Listed(self, b)}

RECURSIVE SumLen(_, _)
SumLen(m, bs) ==
    IF bs = {} THEN 0
    ELSE LET b == CHOOSE x \in bs : TRUE IN Len(m[b]) + SumLen(m, bs \ {b})

\* the number of registrations the bucket index holds
Registrations(self) == SumLen(self.timeToKeyBucket, DOMAIN self.timeToKeyBucket)

\* C35 as stated: in every reachable state the key of every unexpired entry
\* appears in at most one bucket's key list, including after the key is set
\* again with a different TTL.
C35_AsStated ==
    \A k \in Keys : Unexpired(This, k, now) => Cardinality(BucketsOf(This, k)) <= 1

\* C35 amended: with purge enabled, the key of every unexpired entry with a
\* finite expireTime e appears in the key list of bucket
\* floor(e / purgeIntervalMs) + 1; it can appear in other buckets as well,
\* since a set leaves the earlier registrations of its key in place until
\* their buckets are swept, and the index never holds more registrations than
\* sets were made.
C35_CurrentBucketListed ==
    /\ \A k \in Keys :
          (/\ options.purgeIntervalMs # NULL /\ options.purgeIntervalMs > 0
           /\ Unexpired(This, k, now)
           /\ ServedEntry(This, k).expireTime < POSITIVE_INFINITY)
              => ((ServedEntry(This, k).expireTime \div options.purgeIntervalMs) + 1)
                    \in BucketsOf(This, k)
    /\ Registrations(This) <= MaxSets - quota

\* one key set twice with different TTLs: its unexpired entry is listed in
\* the bucket of its expireTime, and the bucket of the earlier set still
\* lists the key
C35_Witness ==
    LET k == KeyOrder[1]
    IN /\ nkeys = 1 /\ quota = MaxSets - 2
       /\ Unexpired(This, k, now) /\ GetRet(This, k, now) = 1
       /\ Cardinality(BucketsOf(This, k)) = 2
       /\ ((latest[k].expireTime \div PurgeInterval) + 1) \in BucketsOf(This, k)

\* the set stores an entry with a finite expireTime while purgeIntervalMs is set
NeedsPurging(ttl) ==
    /\ ExpireAt(ttl, now) < POSITIVE_INFINITY
    /\ options.purgeIntervalMs # NULL /\ options.purgeIntervalMs > 0

\* C36: the purge timer is not running after construction and before the
\* first set; a set starts it exactly when no timer is running and the set
\* stores an entry with a finite expireTime while purgeIntervalMs is set; a
\* set made while the timer runs leaves that timer as it is and starts no
\* second one; nothing but a set starts a timer; so the engine never has more
\* than one active interval, and it has one exactly when purgeExpiredTimer
\* holds a handle.
C36_LazySingleTimer ==
    /\ [](/\ intervals \in {0, 1}
          /\ intervals = 1 <=> purgeExpiredTimer # NULL
          /\ quota = MaxSets => purgeExpiredTimer = NULL)
    /\ [][/\ \A id \in Keys, data \in Data, ttl \in PerCallTtl :
                Set(id, data, ttl) =>
                    IF purgeExpiredTimer # NULL
                    THEN purgeExpiredTimer' = purgeExpiredTimer /\ intervals' = intervals
                    ELSE IF NeedsPurging(ttl)
                    THEN purgeExpiredTimer' = now + options.purgeIntervalMs /\ intervals' = 1
                    ELSE purgeExpiredTimer' = NULL /\ intervals' = 0
          /\ intervals' > intervals =>
                \E id \in Keys, data \in Data, ttl \in PerCallTtl : Set(id, data, ttl)]_vars

\* two sets with finite expireTimes at different times and no sweep between
\* them: the timer still has the schedule the first set gave it, and one
\* interval is active
C36_Witness ==
    /\ quota = MaxSets - 2 /\ ~disposed
    /\ now = 1 /\ purgeExpiredTimer = PurgeInterval
    /\ intervals = 1
    /\ \E k \in Keys : Live(k) /\ latest[k].expireTime = now + DefaultTtl

\* the bucket the next firing of the timer sweeps
NextSwept == purgeExpiredTimer \div options.purgeIntervalMs

\* C37: with purge enabled, the timer firing once per purgeIntervalMs from
\* the first finite-expiry set on and no dispose, every bucket of the index
\* is one that a firing still to come sweeps (the firings sweep consecutive
\* buckets, each bucket once, and delete it), no set registers a key in a
\* bucket that was already swept, and the index never keeps a bucket whose
\* index is below floor(now / purgeIntervalMs).
C37_EveryBucketSwept ==
    /\ [](\A b \in DOMAIN timeToKeyBucket :
            /\ purgeExpiredTimer # NULL
            /\ b >= NextSwept
            /\ b >= now \div options.purgeIntervalMs)
    /\ [][PurgeTimer =>
            /\ now = purgeExpiredTimer
            /\ NowBucket(This, now) = NextSwept
            /\ NextSwept' = NextSwept + 1
            /\ NextSwept \notin DOMAIN timeToKeyBucket']_vars
    /\ [][\A id \in Keys, data \in Data, ttl \in PerCallTtl :
            Set(id, data, ttl) =>
                \A b \in DOMAIN timeToKeyBucket' :
                    timeToKeyBucket'[b] # BucketGet(timeToKeyBucket, b) =>
                        /\ b > now \div options.purgeIntervalMs
                        /\ b >= NextSwept']_vars

\* maxSize not set: the bucket of one key has been swept and deleted and the
\* key removed, the bucket of a key set later is the only one in the index
\* and its sweep is still to come
C37_Witness ==
    \E k \in Keys, j \in Keys :
        /\ options.maxSize = NULL
        /\ Live(k) /\ ~Resident(This, k)
        /\ Live(j) /\ Resident(This, j)
        /\ DOMAIN timeToKeyBucket = {TimeKey(latest[j].expireTime, options.purgeIntervalMs)}
        /\ TimeKey(latest[j].expireTime, options.purgeIntervalMs) > NextSwept

\* the entry served for k has an expireTime that maps to bucket b
MapsTo(self, k, b) ==
    /\ Resident(self, k)
    /\ ServedEntry(self, k).expireTime < POSITIVE_INFINITY
    /\ (ServedEntry(self, k).expireTime \div self.options.purgeIntervalMs) + 1 = b

\* C38: every bucket index computed by set is strictly greater than
\* floor(now / purgeIntervalMs) at registration time; and whenever a sweep
\* processes bucket b at time now, every entry whose expireTime maps to b has
\* expireTime < now, so the test `expireTime < now` holds of every entry
\* registered in b and not set again: the sweep removes each such entry that
\* its lookup finds.
C38_BucketArithmetic ==
    /\ [][\A id \in Keys, data \in Data, ttl \in PerCallTtl :
            (Set(id, data, ttl) /\ NeedsPurging(ttl)) =>
                LET b == (ExpireAt(ttl, now) \div options.purgeIntervalMs) + 1
                IN /\ b > now \div options.purgeIntervalMs
                   /\ id \in Listed(This', b)]_vars
    /\ [][PurgeTimer =>
            \A k \in Keys :
                MapsTo(This, k, NowBucket(This, now)) =>
                    /\ ServedEntry(This, k).expireTime < now
                    /\ (k \in Listed(This, NowBucket(This, now)) /\ MapHas(cache, k))
                            => ~Resident(This', k)]_vars

\* maxSize not set: an entry that expired one time unit before the end of
\* its interval has been removed by the sweep at the first instant of the
\* next interval, the earliest time at which its bucket can be processed
C38_Witness ==
    \E k \in Keys :
        /\ options.maxSize = NULL /\ options.purgeIntervalMs = PurgeInterval
        /\ Live(k) /\ latest[k].expireTime = PurgeInterval - 1
        /\ now = PurgeInterval /\ purgeExpiredTimer = 2 * PurgeInterval
        /\ ~Resident(This, k)
        /\ DOMAIN timeToKeyBucket = {}

\* the producer of call s completes with data: set stores data under the
\* key of the call with an expireTime computed at completion time
WritesBack(s, data) ==
    /\ Resident(This', pending[s].id)
    /\ ServedEntry(This', pending[s].id) = CacheItem(data, ExpireAt(pending[s].ttl, now))

\* C39 as stated: if set(k, v2) ran while a get(k, producer) was suspended in
\* its producer, then when the producer completes with v1 the engine stores
\* v1 for k with an expireTime computed at completion time and a following
\* get(k) returns v1. (The call was suspended because get found nothing to
\* return for k; if get returns a value for k at completion time, a set of k
\* ran in between.)
C39_AsStated ==
    [][\A s \in DOMAIN pending, data \in Data :
          (Resolve(s, data) /\ GetRet(This, pending[s].id, now) # NULL) =>
              /\ WritesBack(s, data)
              /\ GetRet(This', pending[s].id, now') = data]_vars

\* What holds of the write-back: whatever happened to k during the
\* suspension - a set, an invalidate, nothing - the completion stores v1 with
\* an expireTime computed at completion time, and a following get(k) returns
\* v1 when v1 is truthy, not-found when it is falsy.
C39_WriteBackOverwrites ==
    [][\A s \in DOMAIN pending, data \in Data :
          Resolve(s, data) =>
              /\ WritesBack(s, data)
              /\ GetRet(This', pending[s].id, now') = IF Truthy(data) THEN data ELSE NULL]_vars

\* what dispose() does in one step: the maps, the bucket index and the
\* options stay, the timer is cleared, and get returns for every key what it
\* returned before; with no timer running (a second dispose, or a timer never
\* started) nothing changes at all
DisposeFrame ==
    Dispose =>
        /\ cache' = cache /\ oldCache' = oldCache
        /\ timeToKeyBucket' = timeToKeyBucket
        /\ options' = options
        /\ purgeExpiredTimer' = NULL
        /\ \A k \in Keys : GetRet(This', k, now') = GetRet(This, k, now)
        /\ purgeExpiredTimer = NULL => UNCHANGED engineVars

\* C40 as stated: dispose() leaves both generation maps, the bucket index
\* and the options unchanged, so every get after dispose returns what it
\* would have returned without dispose - what the control engine, never
\* disposed, returns; a second dispose() is a no-op; dispose on an engine
\* whose timer was never started changes nothing.
C40_AsStated ==
    /\ [][DisposeFrame]_vars
    /\ [](\A k \in Keys : GetRet(This, k, now) = GetRet(twin, k, now))

\* C40 amended: the same, the gets after dispose returning what they would
\* have returned without dispose when maxSize is not set; with maxSize set
\* the sweeps that dispose stops would have changed when the generations
\* rotate, and a later get can differ.
C40_DisposeOnlyTimer ==
    /\ [][DisposeFrame]_vars
    /\ [](options.maxSize = NULL =>
            \A k \in Keys : GetRet(This, k, now) = GetRet(twin, k, now))

\* maxSize not set: the engine was disposed while its timer ran, a sweep of
\* the control engine has removed an expired entry that the disposed engine
\* still holds, and both return the value of another key
C40_Witness ==
    \E k \in Keys, j \in Keys :
        /\ options.maxSize = NULL /\ disposed /\ purgeExpiredTimer = NULL
        /\ timeToKeyBucket # <<>>
        /\ Resident(This, k) /\ ~Resident(twin, k)
        /\ GetRet(This, j, now) = 1 /\ GetRet(twin, j, now) = 1

\* a key that was set (a bucket still lists it) and then invalidated, gone
\* from both generations while oldCache holds another key that get returns
C7_Witness ==
    \E k \in Keys, j \in Keys :
        /\ ~Live(k) /\ InBucket(This, k) /\ ~Resident(This, k)
        /\ j # k /\ MapHas(oldCache, j) /\ GetRet(This, j, now) # NULL

TypeOK ==
    /\ now \in 0..MaxTime
    /\ MapKeys(cache) \subseteq Keys
    /\ MapKeys(oldCache) \subseteq Keys
====
